---- MODULE Spec2Model ----
(***************************************************************************)
(* The session manager of the blogging client (contexts/AuthContext.js):   *)
(* the AuthProvider state, the AsyncStorage entries 'authToken' and 'user', *)
(* the default axios Authorization header, and the backend accounts the    *)
(* requests are answered from.  Every async function is a small process    *)
(* whose program counter names the await it is suspended at; the steps of  *)
(* different calls interleave at the awaits, as they do on the JS event     *)
(* loop.  The navigator decides which calls the user can start.            *)
(*                                                                         *)
(* Two further specifications share the module.  SpecService is the        *)
(* content client (services/PostService.js): one call at a time, the       *)
(* request it sends, the backend's answer and what the call returns or     *)
(* throws.  SpecScreens is the screens under a session that stays as it    *)
(* is: the navigation stack, the modal alert, and for each mounted screen  *)
(* its state hooks and the fetches it has in flight.                       *)
(***************************************************************************)
EXTENDS Integers, Sequences, FiniteSets, TLC

\* Number of e-mail addresses (accounts) the backend can hold.
MaxUsers == 2

\* JS null / undefined / an absent storage entry / an unset header.
Null == <<>>

Emails == 1 .. MaxUsers

\* A password typed into a form is, to the backend, either the one the
\* account was registered with or another one.
Passwords == {"registered", "other"}

\* The user state before login / after logout (useState(null)).
NoUser == [id |-> 0, email |-> 0, isAdmin |-> FALSE]

\* The profile the backend keeps for an account; account 1 is the admin.
UserOf(e) == [id |-> e, email |-> e, isAdmin |-> (e = 1)]

Users == {UserOf(e) : e \in Emails}

\* The token POST /user/login issues for an account.
TokenOf(e) == <<"jwt", e>>

Tokens == {TokenOf(e) : e \in Emails}

\* GET /user/monprofil -> {data: User} for the bearer of token t.
ProfileOf(t) == UserOf(t[2])

\* `Bearer ${t}`
Bearer(t) == <<"Bearer ", t>>

\* JSON.stringify(userData) / JSON.parse(storedUser)
Stringify(u) == << <<"id", u.id>>, <<"email", u.email>>, <<"isAdmin", u.isAdmin>> >>

Parse(s) == [id |-> s[1][2], email |-> s[2][2], isAdmin |-> s[3][2]]

\* error.response?.data?.message of a failed request: the backend's message,
\* or Null when the response carries none (network failure, thrown Error).
BackendMsg == <<"backend message">>

Messages == {Null, BackendMsg}

\* error.response?.data?.message || fallback
OrFallback(m, fallback) == IF m # Null THEN m ELSE <<fallback>>

\* What is typed into a text field, as its characters: nothing, a blank, a
\* letter, a letter after a blank.
Texts == {<<>>, <<" ">>, <<"x">>, <<" ", "x">>}

TrimStart(s) == IF s # <<>> /\ Head(s) = " " THEN SubSeq(s, 2, Len(s)) ELSE s

TrimEnd(s) == IF s # <<>> /\ s[Len(s)] = " " THEN SubSeq(s, 1, Len(s) - 1) ELSE s

\* String.prototype.trim() for the texts above (at most one blank at an end).
Trim(s) == TrimEnd(TrimStart(s))

\* Number of fetches of one screen that can be awaiting their response.
MaxInFlight == 2

\* Post i is the post written by account i (its userId); an account has at
\* most one post.
PostIds == Emails

\* JS values as the Content Client sees them in response.data: undefined, an
\* array, an object {data: ...}, and a Post (which has no field 'data').
Undefined == [type |-> "undefined"]

Arr(s) == [type |-> "array", items |-> s]

Obj(d) == [type |-> "object", data |-> d]

PostOf(i) == [id |-> i, type |-> "post", userId |-> i]

NoPost == [id |-> 0, type |-> "post", userId |-> 0]

\* The sequences of posts a listing can hold: no post twice.
IdLists ==
  UNION {{s \in [1 .. n -> PostIds] : \A i, j \in 1 .. n : i # j => s[i] # s[j]} :
         n \in 0 .. MaxUsers}

PostsOf(ids) == [i \in 1 .. Len(ids) |-> PostOf(ids[i])]

\* The two shapes of a body: {data: v} and bare v.
Bodies(v) == {Obj(v), v}

\* v.data
DataOf(v) == IF v.type = "object" THEN v.data ELSE Undefined

\* JS truthiness: every object and every array (the empty one too) is truthy.
Truthy(v) == v.type # "undefined"

VARIABLES
  user,             \* useState(null)
  token,            \* useState(null)
  isLoading,        \* useState(true)
  error,            \* useState(null)
  storage,          \* AsyncStorage: the entries 'authToken' and 'user'
  header,           \* axios.defaults.headers.common['Authorization']
  accounts,         \* backend: the registered e-mail addresses
  loadPc,           \* loadStoredAuthState: "getToken", "getUser", "threw", "done"
  storedToken,      \* loadStoredAuthState: const storedToken
  regPc,            \* register: "idle", "post"
  regArgs,          \* register: <<email>> (the password becomes the registered one)
  loginPc,          \* login: "idle","post","profile","setToken","setUser","resolved","rejected"
  loginArgs,        \* login: <<email, password>>
  receivedToken,    \* login: const receivedToken
  userData,         \* login: const userData
  thrownAt,         \* login: the await (or check) whose error reached the catch
  profileSent,      \* login: GET /user/monprofil was issued by this call
  loginWrote,       \* login: this call has changed the user or a persisted entry
  logoutPc,         \* logout: "idle", "rmToken", "rmUser", "resolved", "rejected"
  logoutThrew,      \* logout: an error reached the catch
  profPc,           \* getUserProfile: "idle", "get"
  usersPc,          \* getAllUsers: "idle", "get"
  usersToken        \* getAllUsers: the token of the render that made the call

VARIABLES
  db,               \* backend: the ids of the posts, in the order it lists them
  svcPc,            \* a PostService call: "idle","request","response","resolved","rejected"
  svcCall,          \* the function called and its postId
  svcSent,          \* HTTP requests the call has sent
  svcResponse,      \* the response the backend gave
  svcOut            \* what the call returned or threw

VARIABLES
  stack,            \* the routes of the mounted navigator, the focused one last
  alert,            \* the message of the last Alert.alert
  posts,            \* PostsScreen: useState([])
  postsLoading,     \* PostsScreen: isLoading, useState(true)
  postsError,       \* PostsScreen: error
  postsRuns,        \* PostsScreen: fetchPosts runs awaiting getAllPosts
  postsDelete,      \* PostsScreen: handleDeletePost awaiting its request
  postId,           \* PostDetailScreen: route.params.postId
  post,             \* PostDetailScreen: useState(null)
  postLoading,      \* PostDetailScreen: isLoading, useState(true)
  postError,        \* PostDetailScreen: error
  postRuns,         \* PostDetailScreen: fetchPostDetails runs awaiting getPostById
  postDelete,       \* PostDetailScreen: handleDeletePost awaiting its request
  params,           \* CreateEditPostScreen: route.params
  isFetchingPost,   \* CreateEditPostScreen: useState(isEditing)
  formLoading,      \* CreateEditPostScreen: isLoading, useState(false)
  formError,        \* CreateEditPostScreen: error
  formFetch,        \* CreateEditPostScreen: the prefetch awaits getPostById
  formSubmit,       \* CreateEditPostScreen: handleSubmit awaiting its request
  userProfile,      \* UserProfileScreen: useState(null)
  userPosts,        \* UserProfileScreen: useState([])
  profileLoading,   \* UserProfileScreen: isLoading, useState(true)
  profileError,     \* UserProfileScreen: error
  profileRuns,      \* UserProfileScreen: fetchUserData runs awaiting getUserProfile
  userPostsRuns,    \* UserProfileScreen: fetchUserData runs awaiting fetchUserPosts
  users,            \* UsersListScreen: useState([])
  usersLoading,     \* UsersListScreen: isLoading, useState(true)
  usersError,       \* UsersListScreen: error
  usersRuns,        \* UsersListScreen: fetchUsers runs awaiting getAllUsers
  registerLoading,  \* RegisterScreen: isLoading, useState(false)
  registerRun,      \* RegisterScreen: the e-mail handleRegister awaits register for (0: none)
  autoLogin         \* RegisterScreen: the 'Login Now' button of the success alert

provider == <<user, token, isLoading, error>>
loadVars == <<loadPc, storedToken>>
regVars == <<regPc, regArgs>>
loginVars == <<loginPc, loginArgs, receivedToken, userData, thrownAt, profileSent,
              loginWrote>>
logoutVars == <<logoutPc, logoutThrew>>
readVars == <<profPc, usersPc, usersToken>>
authVars == <<provider, storage, header, accounts, loadVars, regVars, loginVars,
              logoutVars, readVars>>
serviceVars == <<db, svcPc, svcCall, svcSent, svcResponse, svcOut>>
postsVars == <<posts, postsLoading, postsError, postsRuns, postsDelete>>
postVars == <<postId, post, postLoading, postError, postRuns, postDelete>>
formVars == <<params, isFetchingPost, formLoading, formError, formFetch, formSubmit>>
profileVars == <<userProfile, userPosts, profileLoading, profileError, profileRuns,
                 userPostsRuns>>
usersVars == <<users, usersLoading, usersError, usersRuns>>
registerVars == <<registerLoading, registerRun, autoLogin>>
screenVars == <<stack, alert, postsVars, postVars, formVars, profileVars, usersVars,
                registerVars>>
views == <<serviceVars, screenVars>>
vars == <<authVars, views>>

\* What the claims call the session: memory, persisted entries, default header.
session == <<token, user, storage, header>>

\* contextValue.isAuthenticated / contextValue.isAdmin
isAuthenticated == token # Null

isAdmin == user.isAdmin = TRUE

NoStorage == [user |-> Null, authToken |-> Null]

\* No PostService call / no handler awaiting a request.
NoCall == [postId |-> 0, op |-> "none"]

NoResponse == [status |-> 0]

NoOutcome == [threw |-> FALSE, value |-> Undefined]

\* No route.params (NewPost) or no CreateEditPostScreen mounted.
NoParams == [postId |-> 0, isOwnPost |-> FALSE]

ServiceIdle ==
  /\ svcPc = "idle"
  /\ svcCall = NoCall
  /\ svcSent = 0
  /\ svcResponse = NoResponse
  /\ svcOut = NoOutcome

\* The state of each screen before it is mounted (its useState defaults).
PostsUnmounted ==
  /\ posts = <<>>
  /\ postsLoading = TRUE
  /\ postsError = Null
  /\ postsRuns = 0
  /\ postsDelete = NoCall

PostUnmounted ==
  /\ postId = 0
  /\ post = NoPost
  /\ postLoading = TRUE
  /\ postError = Null
  /\ postRuns = 0
  /\ postDelete = NoCall

FormUnmounted ==
  /\ params = NoParams
  /\ isFetchingPost = FALSE
  /\ formLoading = FALSE
  /\ formError = Null
  /\ formFetch = FALSE
  /\ formSubmit = NoCall

ProfileUnmounted ==
  /\ userProfile = NoUser
  /\ userPosts = <<>>
  /\ profileLoading = TRUE
  /\ profileError = Null
  /\ profileRuns = 0
  /\ userPostsRuns = 0

UsersUnmounted ==
  /\ users = <<>>
  /\ usersLoading = TRUE
  /\ usersError = Null
  /\ usersRuns = 0

\* The success alert's button: the e-mail its handler logs in with (0: no
\* alert was raised), whether the handler awaits login, and whether the
\* navigator of the RegisterScreen that raised the alert is still mounted.
NoAutoLogin == [email |-> 0, pending |-> FALSE, nav |-> FALSE]

RegisterUnmounted ==
  /\ registerLoading = FALSE
  /\ registerRun = 0
  /\ autoLogin = NoAutoLogin

\* No screen is mounted.
NoScreens ==
  /\ stack = <<>>
  /\ alert = Null
  /\ PostsUnmounted
  /\ PostUnmounted
  /\ FormUnmounted
  /\ ProfileUnmounted
  /\ UsersUnmounted
  /\ RegisterUnmounted

\* The session manager on its own: no screen is mounted, no post exists.
NoViews ==
  /\ db = <<>>
  /\ ServiceIdle
  /\ NoScreens

Init ==
  /\ user = NoUser
  /\ token = Null
  /\ isLoading = TRUE
  /\ error = Null
  /\ storage = NoStorage
  /\ header = Null
  /\ accounts = {}
  /\ loadPc = "getToken"
  /\ storedToken = Null
  /\ regPc = "idle"
  /\ regArgs = Null
  /\ loginPc = "idle"
  /\ loginArgs = Null
  /\ receivedToken = Null
  /\ userData = NoUser
  /\ thrownAt = "none"
  /\ profileSent = FALSE
  /\ loginWrote = FALSE
  /\ logoutPc = "idle"
  /\ logoutThrew = FALSE
  /\ profPc = "idle"
  /\ usersPc = "idle"
  /\ usersToken = Null
  /\ NoViews

(***************************************************************************)
(* AppNavigator: a spinner while the provider is loading, then the          *)
(* AuthNavigator (Login, Register) when there is no token and the           *)
(* MainNavigator (Posts, UserProfile, UsersList, ...) when there is one.    *)
(***************************************************************************)
AuthNavigator == ~isLoading /\ ~isAuthenticated

MainNavigator == ~isLoading /\ isAuthenticated

(***************************************************************************)
(* loadStoredAuthState                                                      *)
(***************************************************************************)
LoadTokenOk ==
  /\ loadPc = "getToken"
  /\ storedToken' = storage.authToken
  /\ loadPc' = "getUser"
  /\ UNCHANGED <<provider, storage, header, accounts, regVars, loginVars,
                 logoutVars, readVars>>
  /\ UNCHANGED views

\* Mutant of LoadUserOk: the restore forgets the default header.
LoadUserOk_NoHeader ==
  /\ loadPc = "getUser"
  /\ IF storedToken # Null /\ storage.user # Null
       THEN /\ token' = storedToken
            /\ user' = Parse(storage.user)
       ELSE UNCHANGED <<token, user>>
  /\ isLoading' = FALSE
  /\ loadPc' = "done"
  /\ storedToken' = Null
  /\ UNCHANGED <<error, storage, header, accounts, regVars, loginVars,
                 logoutVars, readVars>>
  /\ UNCHANGED views

\* Both reads succeeded: restore the session when both entries are there;
\* finally setIsLoading(false).
LoadUserOk ==
  /\ loadPc = "getUser"
  /\ IF storedToken # Null /\ storage.user # Null
       THEN /\ token' = storedToken
            /\ user' = Parse(storage.user)
            /\ header' = Bearer(storedToken)
       ELSE UNCHANGED <<token, user, header>>
  /\ isLoading' = FALSE
  /\ loadPc' = "done"
  /\ storedToken' = Null
  /\ UNCHANGED <<error, storage, accounts, regVars, loginVars, logoutVars, readVars>>
  /\ UNCHANGED views

\* A getItem rejects: the catch block logs the error.
LoadFail ==
  /\ loadPc \in {"getToken", "getUser"}
  /\ loadPc' = "threw"
  /\ storedToken' = Null
  /\ UNCHANGED <<provider, storage, header, accounts, regVars, loginVars,
                 logoutVars, readVars>>
  /\ UNCHANGED views

\* The finally block after the catch, in the same task: no call can start
\* before it, because the navigator shows the spinner while isLoading.
LoadFinally ==
  /\ loadPc = "threw"
  /\ isLoading' = FALSE
  /\ loadPc' = "done"
  /\ UNCHANGED <<user, token, error, storage, header, accounts, storedToken,
                 regVars, loginVars, logoutVars, readVars>>
  /\ UNCHANGED views

(***************************************************************************)
(* register(name, email, password): POST /user/new                          *)
(***************************************************************************)
RegisterCall(e) ==
  /\ AuthNavigator
  /\ regPc = "idle"
  /\ error' = Null
  /\ regPc' = "post"
  /\ regArgs' = <<e>>
  /\ UNCHANGED <<user, token, isLoading, storage, header, accounts, loadVars,
                 loginVars, logoutVars, readVars>>
  /\ UNCHANGED views

\* Mutant of RegisterOk: registration signs the new account in.
RegisterOk_SignsIn ==
  /\ regPc = "post"
  /\ regArgs[1] \notin accounts
  /\ accounts' = accounts \cup {regArgs[1]}
  /\ token' = TokenOf(regArgs[1])
  /\ header' = Bearer(token')
  /\ regPc' = "idle"
  /\ regArgs' = Null
  /\ UNCHANGED <<user, isLoading, error, storage, loadVars, loginVars,
                 logoutVars, readVars>>
  /\ UNCHANGED views

\* The backend creates the account and register returns response.data.
RegisterOk ==
  /\ regPc = "post"
  /\ regArgs[1] \notin accounts
  /\ accounts' = accounts \cup {regArgs[1]}
  /\ regPc' = "idle"
  /\ regArgs' = Null
  /\ UNCHANGED <<provider, storage, header, loadVars, loginVars, logoutVars,
                 readVars>>
  /\ UNCHANGED views

\* catch: the backend refuses a taken e-mail (with its message), or the
\* request fails without a response.
RegisterFail(m) ==
  /\ regPc = "post"
  /\ m # Null => regArgs[1] \in accounts
  /\ error' = OrFallback(m, "Registration failed")
  /\ regPc' = "idle"
  /\ regArgs' = Null
  /\ UNCHANGED <<user, token, isLoading, storage, header, accounts, loadVars,
                 loginVars, logoutVars, readVars>>
  /\ UNCHANGED views

(***************************************************************************)
(* login(email, password)                                                   *)
(***************************************************************************)
\* The backend's check of POST /user/login {email, password}.
CredentialsOk(args) == args[1] \in accounts /\ args[2] = "registered"

LoginRunning == loginPc \in {"post", "profile", "setToken", "setUser"}

\* login(e, p) up to its first await.
login(e, p) ==
  /\ AuthNavigator
  /\ ~LoginRunning
  /\ error' = Null
  /\ loginPc' = "post"
  /\ loginArgs' = <<e, p>>
  /\ receivedToken' = Null
  /\ userData' = NoUser
  /\ thrownAt' = "none"
  /\ profileSent' = FALSE
  /\ loginWrote' = FALSE
  /\ UNCHANGED <<user, token, isLoading, storage, header, accounts, loadVars,
                 regVars, logoutVars, readVars>>

LoginCall(e, p) ==
  /\ login(e, p)
  /\ UNCHANGED views

\* The catch block: setError(...); throw error.
LoginCatch(m, at) ==
  /\ error' = OrFallback(m, "Login failed")
  /\ loginPc' = "rejected"
  /\ thrownAt' = at
  /\ loginArgs' = Null
  /\ receivedToken' = Null
  /\ userData' = NoUser
  /\ loginWrote' = FALSE
  /\ UNCHANGED profileSent
  /\ UNCHANGED views

\* Mutant of LoginPostOk: the default header is set to the bare token.
LoginPostOk_BareHeader ==
  /\ loginPc = "post"
  /\ CredentialsOk(loginArgs)
  /\ receivedToken' = TokenOf(loginArgs[1])
  /\ token' = receivedToken'
  /\ header' = receivedToken'
  /\ profileSent' = TRUE
  /\ loginPc' = "profile"
  /\ loginArgs' = Null
  /\ UNCHANGED <<user, isLoading, error, storage, accounts, loadVars, regVars,
                 userData, thrownAt, loginWrote, logoutVars, readVars>>
  /\ UNCHANGED views

\* POST /user/login answers {token}: setToken, default header, then the
\* profile request is issued.
LoginPostOk ==
  /\ loginPc = "post"
  /\ CredentialsOk(loginArgs)
  /\ receivedToken' = TokenOf(loginArgs[1])
  /\ token' = receivedToken'
  /\ header' = Bearer(receivedToken')
  /\ profileSent' = TRUE
  /\ loginPc' = "profile"
  /\ loginArgs' = Null
  /\ UNCHANGED <<user, isLoading, error, storage, accounts, loadVars, regVars,
                 userData, thrownAt, loginWrote, logoutVars, readVars>>
  /\ UNCHANGED views

\* Mutant of LoginPostNoToken: the check of receivedToken is missing, login
\* goes on with the undefined token.
LoginPostNoToken_GoesOn ==
  /\ loginPc = "post"
  /\ receivedToken' = Null
  /\ token' = Null
  /\ header' = Bearer(Null)
  /\ profileSent' = TRUE
  /\ loginPc' = "profile"
  /\ loginArgs' = Null
  /\ UNCHANGED <<user, isLoading, error, storage, accounts, loadVars, regVars,
                 userData, thrownAt, loginWrote, logoutVars, readVars>>
  /\ UNCHANGED views

\* POST /user/login answers without a token: throw new Error(...).
LoginPostNoToken ==
  /\ loginPc = "post"
  /\ LoginCatch(Null, "noToken")
  /\ UNCHANGED <<user, token, isLoading, storage, header, accounts, loadVars,
                 regVars, logoutVars, readVars>>
  /\ UNCHANGED views

\* Mutant of LoginPostFail: the catch block also drops the session.
LoginPostFail_DropsSession(m) ==
  /\ loginPc = "post"
  /\ m # Null => ~CredentialsOk(loginArgs)
  /\ LoginCatch(m, "post")
  /\ token' = Null
  /\ header' = Null
  /\ UNCHANGED <<user, isLoading, storage, accounts, loadVars, regVars,
                 logoutVars, readVars>>
  /\ UNCHANGED views

\* POST /user/login fails: the backend rejects the credentials (with its
\* message), or the request fails without a response.
LoginPostFail(m) ==
  /\ loginPc = "post"
  /\ m # Null => ~CredentialsOk(loginArgs)
  /\ LoginCatch(m, "post")
  /\ UNCHANGED <<user, token, isLoading, storage, header, accounts, loadVars,
                 regVars, logoutVars, readVars>>
  /\ UNCHANGED views

\* Mutant of LoginProfileOk: setUser(profileResponse.data), the wrapper
\* {data: User}, which has no e-mail of its own.
LoginProfileOk_KeepsWrapper ==
  /\ loginPc = "profile"
  /\ userData' = ProfileOf(receivedToken)
  /\ user' = NoUser
  /\ loginWrote' = (loginWrote \/ user' # user)
  /\ loginPc' = "setToken"
  /\ UNCHANGED <<token, isLoading, error, storage, header, accounts, loadVars,
                 regVars, loginArgs, receivedToken, thrownAt, profileSent,
                 logoutVars, readVars>>
  /\ UNCHANGED views

\* GET /user/monprofil answers {data: User}: setUser, then the first write.
LoginProfileOk ==
  /\ loginPc = "profile"
  /\ userData' = ProfileOf(receivedToken)
  /\ user' = userData'
  /\ loginWrote' = (loginWrote \/ user' # user)
  /\ loginPc' = "setToken"
  /\ UNCHANGED <<token, isLoading, error, storage, header, accounts, loadVars,
                 regVars, loginArgs, receivedToken, thrownAt, profileSent,
                 logoutVars, readVars>>
  /\ UNCHANGED views

\* Mutant of LoginProfileFail: the catch block revokes the new token.
LoginProfileFail_Revokes(m) ==
  /\ loginPc = "profile"
  /\ LoginCatch(m, "profile")
  /\ token' = Null
  /\ header' = Null
  /\ UNCHANGED <<user, isLoading, storage, accounts, loadVars, regVars,
                 logoutVars, readVars>>
  /\ UNCHANGED views

LoginProfileFail(m) ==
  /\ loginPc = "profile"
  /\ LoginCatch(m, "profile")
  /\ UNCHANGED <<user, token, isLoading, storage, header, accounts, loadVars,
                 regVars, logoutVars, readVars>>
  /\ UNCHANGED views

\* await AsyncStorage.setItem('authToken', receivedToken)
LoginSetTokenOk ==
  /\ loginPc = "setToken"
  /\ storage' = [storage EXCEPT !.authToken = receivedToken]
  /\ loginWrote' = (loginWrote \/ storage' # storage)
  /\ loginPc' = "setUser"
  /\ UNCHANGED <<provider, header, accounts, loadVars, regVars, loginArgs,
                 receivedToken, userData, thrownAt, profileSent, logoutVars,
                 readVars>>
  /\ UNCHANGED views

\* await AsyncStorage.setItem('user', JSON.stringify(userData)); return
LoginSetUserOk ==
  /\ loginPc = "setUser"
  /\ storage' = [storage EXCEPT !.user = Stringify(userData)]
  /\ loginPc' = "resolved"
  /\ receivedToken' = Null
  /\ userData' = NoUser
  /\ loginWrote' = FALSE
  /\ UNCHANGED <<provider, header, accounts, loadVars, regVars, loginArgs,
                 thrownAt, profileSent, logoutVars, readVars>>
  /\ UNCHANGED views

\* A setItem rejects: the entry is not written and the catch block runs.
LoginSetItemFail ==
  /\ loginPc \in {"setToken", "setUser"}
  /\ LoginCatch(Null, loginPc)
  /\ UNCHANGED <<user, token, isLoading, storage, header, accounts, loadVars,
                 regVars, logoutVars, readVars>>
  /\ UNCHANGED views

(***************************************************************************)
(* logout()                                                                 *)
(***************************************************************************)
LogoutRunning == logoutPc \in {"rmToken", "rmUser"}

\* setUser(null); setToken(null); then the first removal is awaited.
LogoutCall ==
  /\ MainNavigator
  /\ ~LogoutRunning
  /\ user' = NoUser
  /\ token' = Null
  /\ logoutPc' = "rmToken"
  /\ logoutThrew' = FALSE
  /\ UNCHANGED <<isLoading, error, storage, header, accounts, loadVars, regVars,
                 loginVars, readVars>>
  /\ UNCHANGED views

\* await AsyncStorage.removeItem('authToken')
LogoutRmTokenOk ==
  /\ logoutPc = "rmToken"
  /\ storage' = [storage EXCEPT !.authToken = Null]
  /\ logoutPc' = "rmUser"
  /\ UNCHANGED <<provider, header, accounts, loadVars, regVars, loginVars,
                 logoutThrew, readVars>>
  /\ UNCHANGED views

\* await AsyncStorage.removeItem('user'); delete the default header
LogoutRmUserOk ==
  /\ logoutPc = "rmUser"
  /\ storage' = [storage EXCEPT !.user = Null]
  /\ header' = Null
  /\ logoutPc' = "resolved"
  /\ UNCHANGED <<provider, accounts, loadVars, regVars, loginVars, logoutThrew,
                 readVars>>
  /\ UNCHANGED views

\* Mutant of LogoutCatch: the catch block rethrows.
LogoutCatch_Rethrows ==
  /\ logoutPc \in {"rmToken", "rmUser"}
  /\ logoutThrew' = TRUE
  /\ logoutPc' = "rejected"
  /\ UNCHANGED <<provider, storage, header, accounts, loadVars, regVars,
                 loginVars, readVars>>
  /\ UNCHANGED views

\* A removeItem rejects: the entry stays and the catch block logs the error.
LogoutCatch ==
  /\ logoutPc \in {"rmToken", "rmUser"}
  /\ logoutThrew' = TRUE
  /\ logoutPc' = "resolved"
  /\ UNCHANGED <<provider, storage, header, accounts, loadVars, regVars,
                 loginVars, readVars>>
  /\ UNCHANGED views

(***************************************************************************)
(* getUserProfile() and getAllUsers()                                       *)
(***************************************************************************)
GetUserProfileCall ==
  /\ MainNavigator
  /\ profPc = "idle"
  /\ error' = Null
  /\ profPc' = "get"
  /\ UNCHANGED <<user, token, isLoading, storage, header, accounts, loadVars,
                 regVars, loginVars, logoutVars, usersPc, usersToken>>
  /\ UNCHANGED views

\* Mutant of GetUserProfileOk: the fetched profile refreshes the cached user.
GetUserProfileOk_Refreshes ==
  /\ profPc = "get"
  /\ profPc' = "idle"
  /\ \E e \in accounts : user' = UserOf(e)
  /\ UNCHANGED <<token, isLoading, error, storage, header, accounts, loadVars,
                 regVars, loginVars, logoutVars, usersPc, usersToken>>
  /\ UNCHANGED views

\* return response.data.data
GetUserProfileOk ==
  /\ profPc = "get"
  /\ profPc' = "idle"
  /\ UNCHANGED <<provider, storage, header, accounts, loadVars, regVars,
                 loginVars, logoutVars, usersPc, usersToken>>
  /\ UNCHANGED views

GetUserProfileFail(m) ==
  /\ profPc = "get"
  /\ error' = OrFallback(m, "Failed to get profile")
  /\ profPc' = "idle"
  /\ UNCHANGED <<user, token, isLoading, storage, header, accounts, loadVars,
                 regVars, loginVars, logoutVars, usersPc, usersToken>>
  /\ UNCHANGED views

GetAllUsersCall ==
  /\ MainNavigator
  /\ usersPc = "idle"
  /\ error' = Null
  /\ usersPc' = "get"
  /\ usersToken' = token
  /\ UNCHANGED <<user, token, isLoading, storage, header, accounts, loadVars,
                 regVars, loginVars, logoutVars, profPc>>
  /\ UNCHANGED views

\* The backend lists the accounts for an admin bearer: return response.data.data
GetAllUsersOk ==
  /\ usersPc = "get"
  /\ ProfileOf(usersToken).isAdmin
  /\ usersPc' = "idle"
  /\ usersToken' = Null
  /\ UNCHANGED <<provider, storage, header, accounts, loadVars, regVars,
                 loginVars, logoutVars, profPc>>
  /\ UNCHANGED views

\* Mutant of GetAllUsersFail: a refused request ends the session in memory.
GetAllUsersFail_SignsOut(m) ==
  /\ usersPc = "get"
  /\ m # Null => ~ProfileOf(usersToken).isAdmin
  /\ error' = OrFallback(m, "Failed to get users")
  /\ token' = IF m # Null THEN Null ELSE token
  /\ user' = IF m # Null THEN NoUser ELSE user
  /\ usersPc' = "idle"
  /\ usersToken' = Null
  /\ UNCHANGED <<isLoading, storage, header, accounts, loadVars, regVars,
                 loginVars, logoutVars, profPc>>
  /\ UNCHANGED views

\* The backend refuses a bearer without admin rights (with its message), or
\* the request fails without a response.
GetAllUsersFail(m) ==
  /\ usersPc = "get"
  /\ m # Null => ~ProfileOf(usersToken).isAdmin
  /\ error' = OrFallback(m, "Failed to get users")
  /\ usersPc' = "idle"
  /\ usersToken' = Null
  /\ UNCHANGED <<user, token, isLoading, storage, header, accounts, loadVars,
                 regVars, loginVars, logoutVars, profPc>>
  /\ UNCHANGED views

(***************************************************************************)
(* The process is killed and started again: the provider is constructed     *)
(* anew, AsyncStorage and the backend keep what they hold.                  *)
(***************************************************************************)
Restart ==
  /\ loadPc = "done"
  /\ user' = NoUser
  /\ token' = Null
  /\ isLoading' = TRUE
  /\ error' = Null
  /\ header' = Null
  /\ loadPc' = "getToken"
  /\ storedToken' = Null
  /\ regPc' = "idle"
  /\ regArgs' = Null
  /\ loginPc' = "idle"
  /\ loginArgs' = Null
  /\ receivedToken' = Null
  /\ userData' = NoUser
  /\ thrownAt' = "none"
  /\ profileSent' = FALSE
  /\ loginWrote' = FALSE
  /\ logoutPc' = "idle"
  /\ logoutThrew' = FALSE
  /\ profPc' = "idle"
  /\ usersPc' = "idle"
  /\ usersToken' = Null
  /\ UNCHANGED <<storage, accounts>>
  /\ UNCHANGED views

Next ==
  \/ LoadTokenOk
  \/ LoadUserOk
  \/ LoadFail
  \/ LoadFinally
  \/ \E e \in Emails : RegisterCall(e)
  \/ RegisterOk
  \/ \E m \in Messages : RegisterFail(m)
  \/ \E e \in Emails, p \in Passwords : LoginCall(e, p)
  \/ LoginPostOk
  \/ LoginPostNoToken
  \/ \E m \in Messages : LoginPostFail(m)
  \/ LoginProfileOk
  \/ \E m \in Messages : LoginProfileFail(m)
  \/ LoginSetTokenOk
  \/ LoginSetUserOk
  \/ LoginSetItemFail
  \/ LogoutCall
  \/ LogoutRmTokenOk
  \/ LogoutRmUserOk
  \/ LogoutCatch
  \/ GetUserProfileCall
  \/ GetUserProfileOk
  \/ \E m \in Messages : GetUserProfileFail(m)
  \/ GetAllUsersCall
  \/ GetAllUsersOk
  \/ \E m \in Messages : GetAllUsersFail(m)
  \/ Restart

Spec == Init /\ [][Next]_vars

TypeOK ==
  /\ user \in Users \cup {NoUser}
  /\ token \in Tokens \cup {Null}
  /\ isLoading \in BOOLEAN
  /\ storage.authToken \in Tokens \cup {Null}
  /\ header \in {Bearer(t) : t \in Tokens} \cup {Null}
  /\ loadPc \in {"getToken", "getUser", "threw", "done"}
  /\ regPc \in {"idle", "post"}
  /\ loginPc \in {"idle", "post", "profile", "setToken", "setUser", "resolved", "rejected"}
  /\ logoutPc \in {"idle", "rmToken", "rmUser", "resolved", "rejected"}
  /\ profPc \in {"idle", "get"}
  /\ usersPc \in {"idle", "get"}

(***************************************************************************)
(* Properties                                                               *)
(***************************************************************************)
LoadRunning == loadPc \in {"getToken", "getUser", "threw"}

\* The step is taken inside one run of the process (it is not a restart).
SameRun == ~(loadPc = "done" /\ loadPc' = "getToken")

\* The step completes a call of logout.
LogoutCompletes == LogoutRunning /\ logoutPc' = "resolved"

\* C1: every step that completes a call of logout, whatever the storage
\* removals did, leaves isAuthenticated false and persisted storage with
\* neither the 'authToken' entry nor the 'user' entry.
C1_LogoutClearsSession ==
  [][LogoutCompletes =>
       /\ token' = Null
       /\ storage'.authToken = Null
       /\ storage'.user = Null]_vars

\* C2: a login whose POST /user/login is refused rejects without touching
\* the session: neither the call nor the rejection changes the in-memory
\* token, the in-memory user, a persisted entry or the default header, and
\* the call has issued no profile request.
C2_RejectedLoginKeepsSession ==
  [][(\/ loginPc' = "post" /\ loginPc # "post"
      \/ loginPc = "post" /\ loginPc' = "rejected" /\ thrownAt' = "post")
       => UNCHANGED session /\ ~profileSent']_vars

C2_Witness ==
  /\ loginPc = "rejected"
  /\ thrownAt = "post"
  /\ error = BackendMsg
  /\ storage.authToken # Null
  /\ storage.user # Null
  /\ header # Null

\* C3: a login resolves only after its own steps have set the in-memory
\* token to the token POST /user/login returned and the default header to
\* 'Bearer <that token>', set the in-memory user to the profile GET
\* /user/monprofil returned for that token, and written that token to
\* 'authToken' and the serialized user to 'user'; none of its later steps
\* undoes an earlier one.
C3_LoginSuccessPopulates ==
  [][/\ (loginPc = "post" /\ loginPc' = "profile") =>
          /\ receivedToken' = TokenOf(loginArgs[1])
          /\ token' = receivedToken'
          /\ header' = Bearer(receivedToken')
     /\ (loginPc = "profile" /\ loginPc' = "setToken") =>
          /\ userData' = ProfileOf(receivedToken)
          /\ user' = userData'
          /\ UNCHANGED <<token, header, receivedToken>>
     /\ (loginPc = "setToken" /\ loginPc' = "setUser") =>
          /\ storage'.authToken = receivedToken
          /\ UNCHANGED <<token, header, user, receivedToken, userData>>
     /\ (loginPc' = "resolved" /\ loginPc # "resolved") =>
          /\ loginPc = "setUser"
          /\ storage'.user = Stringify(userData)
          /\ Parse(storage'.user) = ProfileOf(receivedToken)
          /\ UNCHANGED <<token, header, user, storage.authToken>>]_vars

C3_Witness ==
  /\ loginPc = "resolved"
  /\ token \in Tokens
  /\ user = ProfileOf(token)
  /\ storage = [user |-> Stringify(user), authToken |-> token]
  /\ header = Bearer(token)

\* C4: the token exchange puts the new token in the in-memory session and
\* in the default header and writes neither the user nor storage; when the
\* profile fetch then fails, login rejects and leaves all of it as it is:
\* the token and the header are not rolled back, the user is not populated
\* and nothing is written to persisted storage.
C4_ProfileFailureKeepsToken ==
  [][/\ (loginPc = "post" /\ loginPc' = "profile") =>
          /\ token' \in Tokens
          /\ token' = receivedToken'
          /\ header' = Bearer(token')
          /\ UNCHANGED <<user, storage>>
     /\ (loginPc = "profile" /\ loginPc' \notin {"profile", "setToken"} /\ SameRun) =>
          /\ loginPc' = "rejected"
          /\ thrownAt' = "profile"
          /\ UNCHANGED session]_vars

C4_Witness ==
  /\ loginPc = "rejected"
  /\ thrownAt = "profile"
  /\ token \in Tokens
  /\ header = Bearer(token)
  /\ user = NoUser
  /\ storage = NoStorage

\* C5: the in-memory user becomes populated (or changes to another user)
\* only in the step of login that receives the profile, or in the step of
\* the restore at start that finds both persisted entries.
C5_UserOnlyFromProfileOrRestore ==
  [][(user' # user /\ user' # NoUser) =>
       \/ /\ loginPc = "profile"
          /\ loginPc' = "setToken"
          /\ user' = ProfileOf(receivedToken)
       \/ /\ loadPc = "getUser"
          /\ loadPc' = "done"
          /\ storedToken # Null
          /\ storage.user # Null
          /\ user' = Parse(storage.user)]_vars

C5_Witness ==
  /\ user # NoUser
  /\ loadPc = "done"
  /\ loginPc = "idle"
  /\ regPc = "idle"
  /\ profPc = "idle"
  /\ usersPc = "idle"
  /\ error = <<"Failed to get profile">>

\* C6: whenever neither login nor logout is in progress, persisted storage
\* holds both entries or neither.
C6_EntriesTogether ==
  (~LoginRunning /\ ~LogoutRunning) =>
    (storage.authToken = Null <=> storage.user = Null)

\* C7: no step of login, logout or the restore at start changes the token,
\* the user, storage or the default header while another of the three is
\* suspended at one of its awaits.
C7_NoConcurrentWriters ==
  [][(SameRun /\ session' # session) =>
       /\ loginPc' # loginPc => ~LogoutRunning /\ ~LoadRunning
       /\ logoutPc' # logoutPc => ~LoginRunning /\ ~LoadRunning
       /\ loadPc' # loadPc => ~LoginRunning /\ ~LogoutRunning]_vars

\* C8: logout never rejects: its first step clears the in-memory token and
\* user, and every later step, whether the removal succeeded or threw,
\* moves on to the next removal or resolves, and leaves both cleared values
\* alone.
C8_LogoutNeverRejects ==
  [][(SameRun /\ logoutPc' # logoutPc) =>
       /\ logoutPc' \in {"rmToken", "rmUser", "resolved"}
       /\ logoutPc' = "rmToken" => token' = Null /\ user' = NoUser
       /\ LogoutRunning => UNCHANGED <<token, user>>]_vars

C8_Witness ==
  /\ logoutPc = "resolved"
  /\ logoutThrew
  /\ token = Null
  /\ user = NoUser

\* C9: every step that completes a call of logout leaves no default
\* Authorization header set.
C9_LogoutUnsetsHeader ==
  [][LogoutCompletes => header' = Null]_vars

\* C10: no step of register, neither the call nor its success nor its
\* failure, changes the in-memory token, the in-memory user, a persisted
\* entry or the default header.
C10_RegisterKeepsSession ==
  [][(SameRun /\ regPc' # regPc) => UNCHANGED session]_vars

C10_Witness ==
  /\ regPc = "idle"
  /\ error = <<"Registration failed">>
  /\ token # Null
  /\ storage.authToken # Null

\* Both persisted entries are present.
StoredSession == storage.authToken # Null /\ storage.user # Null

\* C11 as claimed: whenever the restore at start ends, the session is the
\* persisted one (token, parsed user, 'Bearer <token>') when storage holds
\* both entries, and empty when storage lacks either.
C11_RestoreYieldsSession ==
  [][(loadPc \in {"getToken", "getUser"} /\ loadPc' \notin {"getToken", "getUser"}) =>
       IF StoredSession
         THEN /\ token' = storage.authToken
              /\ user' = Parse(storage.user)
              /\ header' = Bearer(storage.authToken)
         ELSE token' = Null /\ user' = NoUser /\ header' = Null]_vars

\* C11 amended: what a resolving login persisted is its token and a
\* serialization that parses back to its user; a restore at start whose two
\* reads succeed yields the persisted token, the parsed user and the header
\* 'Bearer <token>' when storage holds both entries; when storage lacks
\* either entry, or a read throws, the restored session stays empty.
C11_RestoreUnlessReadThrows ==
  [][/\ (loginPc = "setToken" /\ loginPc' = "setUser") =>
          storage'.authToken = receivedToken
     /\ (loginPc = "setUser" /\ loginPc' = "resolved") =>
          Parse(storage'.user) = userData
     /\ (loadPc = "getUser" /\ loadPc' = "done") =>
          IF StoredSession
            THEN /\ token' = storage.authToken
                 /\ user' = Parse(storage.user)
                 /\ header' = Bearer(storage.authToken)
            ELSE token' = Null /\ user' = NoUser /\ header' = Null
     /\ (loadPc' = "threw" \/ loadPc = "threw") =>
          token' = Null /\ user' = NoUser /\ header' = Null]_vars

C11_Witness ==
  /\ loadPc = "done"
  /\ loginPc = "idle"
  /\ StoredSession
  /\ token = storage.authToken
  /\ user = Parse(storage.user)
  /\ user = ProfileOf(token)
  /\ header = Bearer(token)

\* C22: an account exists at the backend only for an e-mail register was
\* called with; a login with that e-mail and the registered password is
\* accepted, receives the token of that account, and caches the profile the
\* backend returns for that token, whose e-mail is the registered one; the
\* user it persists has the same e-mail.
C22_RegisterThenLogin ==
  [][/\ (SameRun /\ accounts' # accounts) =>
          /\ regPc = "post"
          /\ accounts' = accounts \cup {regArgs[1]}
     /\ (loginPc = "post" /\ loginPc' = "profile") =>
          /\ loginArgs[1] \in accounts
          /\ loginArgs[2] = "registered"
          /\ receivedToken' = TokenOf(loginArgs[1])
     /\ (loginPc = "profile" /\ loginPc' = "setToken") =>
          /\ user'.email = receivedToken[2]
          /\ user'.email \in accounts
     /\ (loginPc = "setUser" /\ loginPc' = "resolved") =>
          Parse(storage'.user).email = receivedToken[2]]_vars

C22_Witness ==
  /\ loginPc = "resolved"
  /\ regPc = "idle"
  /\ accounts = {2}
  /\ user.email = 2
  /\ token = TokenOf(2)
  /\ Parse(storage.user).email = 2

\* C24: whenever isAuthenticated is true the cached user is present, so
\* that post.userId === user.id of canEditPost and canDeletePost, which the
\* screens of the main navigator evaluate for a user who is not an admin,
\* reads the id of a user.
C24_AuthenticatedHasUser == isAuthenticated => user # NoUser

\* A logout was invoked while the login in progress was suspended: the
\* token that login had set is gone before login is done.
LogoutDuringLogin == loginPc \in {"profile", "setToken", "setUser"} /\ token = Null

\* C25: when a login during whose suspension a logout was invoked completes
\* after that logout has completed (with both removals done), the session
\* is empty: no in-memory token or user, neither persisted entry, no
\* default header.
C25_LogoutDuringLoginEmpties ==
  [][(/\ LogoutDuringLogin
      /\ loginPc' \in {"resolved", "rejected"}
      /\ logoutPc = "resolved"
      /\ ~logoutThrew) =>
       /\ token' = Null
       /\ user' = NoUser
       /\ storage' = NoStorage
       /\ header' = Null]_vars

\* C26: whenever neither the restore at start nor a call of register,
\* login, logout, getUserProfile or getAllUsers is in progress, the default
\* Authorization header is set exactly when the in-memory token is present,
\* and it is then 'Bearer ' followed by that token.
C26_HeaderMatchesToken ==
  (/\ ~LoadRunning
   /\ ~LoginRunning
   /\ ~LogoutRunning
   /\ regPc = "idle"
   /\ profPc = "idle"
   /\ usersPc = "idle") =>
    IF token = Null THEN header = Null ELSE header = Bearer(token)

\* C27: every step by which login rejects, whatever threw, finds the
\* in-memory user and both persisted entries as they were when login was
\* called: the call has changed none of them, and the rejecting step does
\* not either.  A login during which logout was invoked is left to C25.
C27_RejectedLoginKeepsUserAndStorage ==
  [][(LoginRunning /\ loginPc' = "rejected" /\ ~LogoutDuringLogin) =>
       /\ ~loginWrote
       /\ user' = user
       /\ storage' = storage]_vars

\* C28: login goes on to the profile request only with a token it received
\* and has set; when POST /user/login answers without a token, login
\* rejects with the error of its own check, has sent no profile request,
\* and leaves the in-memory token and user, persisted storage and the
\* default header unchanged.
C28_NoTokenRejects ==
  [][/\ (loginPc = "post" /\ loginPc' = "profile") =>
          receivedToken' \in Tokens /\ token' = receivedToken'
     /\ LoginPostNoToken =>
          /\ loginPc' = "rejected"
          /\ thrownAt' = "noToken"
          /\ error' = <<"Login failed">>
          /\ ~profileSent'
          /\ UNCHANGED session]_vars

C28_Witness ==
  /\ loginPc = "rejected"
  /\ thrownAt = "noToken"
  /\ ~profileSent
  /\ storage.authToken # Null
  /\ token = Null

\* C29: no step of getUserProfile or getAllUsers, neither the call nor its
\* success nor its failure, changes the in-memory token, the cached user, a
\* persisted entry or the default header; a profile that was fetched is
\* returned and not cached.
C29_ReadsKeepSession ==
  [][(SameRun /\ (profPc' # profPc \/ usersPc' # usersPc)) =>
       UNCHANGED session]_vars

C29_Witness ==
  /\ profPc = "idle"
  /\ usersPc = "idle"
  /\ error = <<"Failed to get users">>
  /\ loginPc = "resolved"
  /\ token \in Tokens
  /\ user = ProfileOf(token)
  /\ header = Bearer(token)
  /\ storage = [user |-> Stringify(user), authToken |-> token]

(***************************************************************************)
(* The Content Client (services/PostService.js).  Each function sends one   *)
(* request with axios, returns the body (unwrapped for the two reads) and   *)
(* rethrows the error of a failed request.  The backend answers a request   *)
(* as it sees fit: it accepts it, or refuses it with a status.              *)
(***************************************************************************)
Operations ==
  {"getAllPosts", "getPostById", "createPost", "updatePost", "updateOwnPost",
   "deletePost", "deleteOwnPost"}

\* The functions that take a postId.
TakesPostId(op) == op \notin {"getAllPosts", "createPost"}

\* The statuses of a refused request; 0 stands for no response at all.
Statuses == {0, 403, 404, 500}

\* The session of account e when nothing is in progress: the state login
\* leaves behind, as a restart restores it.
SignedIn(e) ==
  /\ user = UserOf(e)
  /\ token = TokenOf(e)
  /\ isLoading = FALSE
  /\ error = Null
  /\ storage = [user |-> Stringify(UserOf(e)), authToken |-> TokenOf(e)]
  /\ header = Bearer(TokenOf(e))
  /\ accounts = Emails
  /\ loadPc = "done"
  /\ storedToken = Null
  /\ regPc = "idle"
  /\ regArgs = Null
  /\ loginPc = "idle"
  /\ loginArgs = Null
  /\ receivedToken = Null
  /\ userData = NoUser
  /\ thrownAt = "none"
  /\ profileSent = FALSE
  /\ loginWrote = FALSE
  /\ logoutPc = "idle"
  /\ logoutThrew = FALSE
  /\ profPc = "idle"
  /\ usersPc = "idle"
  /\ usersToken = Null

InIdList(i, ids) == \E k \in 1 .. Len(ids) : ids[k] = i

Without(ids, i) == SelectSeq(ids, LAMBDA x : x # i)

\* Mutant of Unwrap: the body is unwrapped only when its list is not empty.
Unwrap_NonEmpty(body) ==
  IF Truthy(body) /\ Truthy(DataOf(body)) /\ DataOf(body).type = "array"
     /\ DataOf(body).items # <<>>
    THEN DataOf(body)
    ELSE body

\* if (response.data && response.data.data) return response.data.data;
\* return response.data;
Unwrap(body) ==
  IF Truthy(body) /\ Truthy(DataOf(body)) THEN DataOf(body) ELSE body

\* The value a function returns for the body of a successful response.
ReturnOf(op, body) ==
  IF op \in {"getAllPosts", "getPostById"} THEN Unwrap(body) ELSE body

\* The function is called: its axios call sends the request.
ServiceCall(op, id) ==
  /\ svcPc \in {"idle", "resolved", "rejected"}
  /\ svcPc' = "request"
  /\ svcCall' = [postId |-> id, op |-> op]
  /\ svcSent' = 1
  /\ svcResponse' = NoResponse
  /\ svcOut' = NoOutcome
  /\ UNCHANGED <<authVars, db, screenVars>>

\* The backend accepts the request.
BackendAccept ==
  /\ svcPc = "request"
  /\ svcPc' = "response"
  /\ LET op == svcCall.op
         id == svcCall.postId
     IN  CASE op = "getAllPosts" ->
                /\ \E body \in Bodies(Arr(PostsOf(db))) :
                     svcResponse' = [data |-> body, status |-> 200]
                /\ db' = db
            [] op = "getPostById" ->
                /\ InIdList(id, db)
                /\ \E body \in Bodies(PostOf(id)) :
                     svcResponse' = [data |-> body, status |-> 200]
                /\ db' = db
            [] op = "createPost" ->
                /\ ~InIdList(user.id, db)
                /\ db' = Append(db, user.id)
                /\ svcResponse' = [data |-> Obj(PostOf(user.id)), status |-> 200]
            [] op \in {"updatePost", "updateOwnPost"} ->
                /\ InIdList(id, db)
                /\ db' = db
                /\ svcResponse' = [data |-> Obj(PostOf(id)), status |-> 200]
            [] op \in {"deletePost", "deleteOwnPost"} ->
                /\ InIdList(id, db)
                /\ db' = Without(db, id)
                /\ svcResponse' = [data |-> Obj(Undefined), status |-> 200]
  /\ UNCHANGED <<authVars, svcCall, svcSent, svcOut, screenVars>>

\* The backend refuses the request (403: the actor lacks the role or is not
\* the owner), or no response arrives; a refusal may carry a message.
BackendReject(status, m) ==
  /\ svcPc = "request"
  /\ status = 0 => m = Null
  /\ svcPc' = "response"
  /\ svcResponse' = [status |-> status, message |-> m]
  /\ UNCHANGED <<authVars, db, svcCall, svcSent, svcOut, screenVars>>

\* return response.data (unwrapped by the two reads)
ServiceReturn ==
  /\ svcPc = "response"
  /\ svcResponse.status = 200
  /\ svcPc' = "resolved"
  /\ svcOut' = [threw |-> FALSE, value |-> ReturnOf(svcCall.op, svcResponse.data)]
  /\ UNCHANGED <<authVars, db, svcCall, svcSent, svcResponse, screenVars>>

\* Mutant of ServiceThrow: the catch block logs the error and returns.
ServiceThrow_Swallows ==
  /\ svcPc = "response"
  /\ svcResponse.status # 200
  /\ svcPc' = "resolved"
  /\ svcOut' = NoOutcome
  /\ UNCHANGED <<authVars, db, svcCall, svcSent, svcResponse, screenVars>>

\* catch (error) { console.error(...); throw error; }
ServiceThrow ==
  /\ svcPc = "response"
  /\ svcResponse.status # 200
  /\ svcPc' = "rejected"
  /\ svcOut' = [threw |-> TRUE, value |-> svcResponse]
  /\ UNCHANGED <<authVars, db, svcCall, svcSent, svcResponse, screenVars>>

InitService ==
  /\ \E e \in Emails : SignedIn(e)
  /\ db \in IdLists
  /\ ServiceIdle
  /\ NoScreens

NextService ==
  \/ \E op \in Operations :
       \E id \in (IF TakesPostId(op) THEN PostIds ELSE {0}) : ServiceCall(op, id)
  \/ BackendAccept
  \/ \E status \in Statuses, m \in Messages : BackendReject(status, m)
  \/ ServiceReturn
  \/ ServiceThrow

SpecService == InitService /\ [][NextService]_vars

\* C14: a call of a Content Client function sends exactly one request: the
\* call sends it, no later step sends another; the call resolves when the
\* backend accepted and rejects with the backend's failure when it refused.
C14_OneRequestNoRetry ==
  [][/\ svcPc' = "request" => svcPc \notin {"request", "response"} /\ svcSent' = 1
     /\ svcPc \in {"request", "response"} => svcSent' = 1 /\ svcCall' = svcCall
     /\ svcPc = "response" =>
          IF svcResponse.status = 200
            THEN svcPc' = "resolved" /\ ~svcOut'.threw
            ELSE /\ svcPc' = "rejected"
                 /\ svcOut' = [threw |-> TRUE, value |-> svcResponse]]_vars

C14_Witness ==
  /\ svcPc = "rejected"
  /\ svcCall.op = "updateOwnPost"
  /\ svcSent = 1
  /\ svcOut.value.status = 403

\* C20: getAllPosts resolves with exactly the sequence of posts the backend
\* sent, in the backend's order, whether the body is {data: [Post]} or a
\* bare [Post]; an empty listing resolves with the empty sequence.
C20_ListPostsReturnsBackendSequence ==
  (svcPc = "resolved" /\ svcCall.op = "getAllPosts") =>
    /\ svcResponse.data \in Bodies(svcOut.value)
    /\ svcOut = [threw |-> FALSE, value |-> Arr(PostsOf(db))]

C20_Witness ==
  /\ svcPc = "resolved"
  /\ svcCall.op = "getAllPosts"
  /\ svcResponse.data = Obj(Arr(<<>>))
  /\ svcOut.value = Arr(<<>>)

(***************************************************************************)
(* The screens.  A screen is mounted while its route is on the navigator's  *)
(* stack and focused while it is the last one.  A fetch is a run of an      *)
(* async function suspended at its request; the responses arrive in any     *)
(* order, whatever screen is focused.  An Alert is modal: the user must     *)
(* dismiss it before pressing anything else.  The backend is shared with    *)
(* other clients, so a listing can hold any posts.  The header menu is      *)
(* modelled on the root screen.                                             *)
(***************************************************************************)
Top == stack[Len(stack)]

Mounted(route) == \E k \in 1 .. Len(stack) : stack[k] = route

\* The session variables no screen writes.
fixedAuth == <<user, token, isLoading, storage, header, loadVars, regVars,
               loginVars, logoutVars, readVars>>

\* The session before any login, with the accounts registered so far.
SignedOut ==
  /\ user = NoUser
  /\ token = Null
  /\ isLoading = FALSE
  /\ error = Null
  /\ storage = NoStorage
  /\ header = Null
  /\ loadPc = "done"
  /\ storedToken = Null
  /\ regPc = "idle"
  /\ regArgs = Null
  /\ loginPc = "idle"
  /\ loginArgs = Null
  /\ receivedToken = Null
  /\ userData = NoUser
  /\ thrownAt = "none"
  /\ profileSent = FALSE
  /\ loginWrote = FALSE
  /\ logoutPc = "idle"
  /\ logoutThrew = FALSE
  /\ profPc = "idle"
  /\ usersPc = "idle"
  /\ usersToken = Null

\* Mutant of canEditPost: every signed-in user is offered the edit button.
canEditPost_Anyone(p) == isAuthenticated

\* if (!isAuthenticated) return false; return isAdmin || post.userId === user.id;
canEditPost(p) == isAuthenticated /\ (isAdmin \/ p.userId = user.id)

canDeletePost(p) == isAuthenticated /\ (isAdmin \/ p.userId = user.id)

\* handleSubmit in edit mode: if (isAdmin && !isOwnPost) updatePost else updateOwnPost
UpdateEndpoint(admin, isOwnPost) ==
  IF admin /\ ~isOwnPost THEN "updatePost" ELSE "updateOwnPost"

\* handleDeletePost: if (isAdmin) deletePost else if (isOwnPost) deleteOwnPost
\* else the alert 'You can only delete your own posts'
DeleteEndpoint(admin, isOwnPost) ==
  IF admin THEN "deletePost" ELSE IF isOwnPost THEN "deleteOwnPost" ELSE "none"

\* 'Failed to delete post: ' + (error.response?.data?.message || error.message)
DeleteFailed(m) == <<"Failed to delete post: ">> \o OrFallback(m, "error.message")

\* fetchPosts up to its await: setIsLoading(true), getAllPosts is requested.
fetchPosts ==
  /\ postsRuns < MaxInFlight
  /\ postsLoading' = TRUE
  /\ postsRuns' = postsRuns + 1
  /\ UNCHANGED <<posts, postsError>>

\* fetchPostDetails up to its await.
fetchPostDetails ==
  /\ postRuns < MaxInFlight
  /\ postLoading' = TRUE
  /\ postRuns' = postRuns + 1
  /\ UNCHANGED <<postId, post, postError>>

\* fetchUserData up to its await: setIsLoading(true), and getUserProfile
\* clears the session's error field and requests the profile.
fetchUserData ==
  /\ profileRuns + userPostsRuns < MaxInFlight
  /\ profileLoading' = TRUE
  /\ profileRuns' = profileRuns + 1
  /\ error' = Null
  /\ UNCHANGED <<userProfile, userPosts, profileError, userPostsRuns>>

\* Mutant of fetchUsers: the request is made whatever the cached role.
fetchUsers_NoCheck ==
  /\ usersRuns < MaxInFlight
  /\ usersLoading' = TRUE
  /\ usersRuns' = usersRuns + 1
  /\ error' = Null
  /\ UNCHANGED <<users, usersError>>

\* fetchUsers up to its await: without the admin role no request is made.
fetchUsers ==
  IF ~isAdmin
    THEN /\ usersError' = <<"You do not have permission to access this page">>
         /\ usersLoading' = FALSE
         /\ UNCHANGED <<users, usersRuns, error>>
    ELSE /\ usersRuns < MaxInFlight
         /\ usersLoading' = TRUE
         /\ usersRuns' = usersRuns + 1
         /\ error' = Null
         /\ UNCHANGED <<users, usersError>>

\* The views a screen renders: the spinner while loading, then the error
\* view, else the data.
PostsView == Top = "Posts" /\ alert = Null /\ ~postsLoading /\ postsError = Null

PostsErrorView == Top = "Posts" /\ alert = Null /\ ~postsLoading /\ postsError # Null

PostView == Top = "PostDetail" /\ alert = Null /\ ~postLoading /\ postError = Null

PostErrorView == Top = "PostDetail" /\ alert = Null /\ ~postLoading /\ postError # Null

ProfileView == Top = "UserProfile" /\ alert = Null /\ ~profileLoading /\ profileError = Null

ProfileErrorView == Top = "UserProfile" /\ alert = Null /\ ~profileLoading /\ profileError # Null

UsersErrorView == Top = "UsersList" /\ alert = Null /\ ~usersLoading /\ usersError # Null

FormView == Top \in {"NewPost", "EditPost"} /\ alert = Null /\ ~isFetchingPost

InitScreens ==
  /\ db = <<>>
  /\ ServiceIdle
  /\ alert = Null
  /\ PostUnmounted
  /\ FormUnmounted
  /\ ProfileUnmounted
  /\ UsersUnmounted
  /\ RegisterUnmounted
  /\ posts = <<>>
  /\ postsError = Null
  /\ postsDelete = NoCall
  /\ postsLoading = TRUE
  /\ \/ /\ \E e \in Emails : SignedIn(e)
        /\ stack = <<"Posts">>
        /\ postsRuns = 1
     \/ /\ SignedOut
        /\ accounts \in SUBSET Emails
        /\ stack = <<"Login">>
        /\ postsRuns = 0

(***************************************************************************)
(* Navigation                                                               *)
(***************************************************************************)
\* A screen is unmounted: its state is gone, and what its suspended runs
\* set later has no effect.
UnmountPost ==
  /\ postId' = 0
  /\ post' = NoPost
  /\ postLoading' = TRUE
  /\ postError' = Null
  /\ postRuns' = 0
  /\ postDelete' = NoCall

UnmountForm ==
  /\ params' = NoParams
  /\ isFetchingPost' = FALSE
  /\ formLoading' = FALSE
  /\ formError' = Null
  /\ formFetch' = FALSE
  /\ formSubmit' = NoCall

UnmountProfile ==
  /\ userProfile' = NoUser
  /\ userPosts' = <<>>
  /\ profileLoading' = TRUE
  /\ profileError' = Null
  /\ profileRuns' = 0
  /\ userPostsRuns' = 0

UnmountUsers ==
  /\ users' = <<>>
  /\ usersLoading' = TRUE
  /\ usersError' = Null
  /\ usersRuns' = 0

\* The alert and its handler outlive the screen.
UnmountRegister ==
  /\ registerLoading' = FALSE
  /\ registerRun' = 0
  /\ UNCHANGED autoLogin

\* navigation.navigate(route): the route is mounted on top of the stack.
Push(route) == stack' = Append(stack, route)

\* navigation.goBack(): the focused screen is unmounted and the one below
\* gets the 'focus' event; PostsScreen and UserProfileScreen listen to it.
Pop ==
  LET from == Top
      to == stack[Len(stack) - 1]
  IN  /\ Len(stack) > 1
      /\ stack' = SubSeq(stack, 1, Len(stack) - 1)
      /\ IF to = "Posts"
           THEN fetchPosts /\ UNCHANGED postsDelete
           ELSE UNCHANGED postsVars
      /\ IF from = "PostDetail" THEN UnmountPost ELSE UNCHANGED postVars
      /\ IF from \in {"NewPost", "EditPost"} THEN UnmountForm ELSE UNCHANGED formVars
      /\ IF from = "UserProfile"
           THEN UnmountProfile /\ UNCHANGED error
           ELSE IF to = "UserProfile"
                  THEN fetchUserData
                  ELSE UNCHANGED <<profileVars, error>>
      /\ IF from = "UsersList" THEN UnmountUsers ELSE UNCHANGED usersVars
      /\ IF from = "Register" THEN UnmountRegister ELSE UNCHANGED registerVars

\* The back button of the header, the Cancel button of the form, 'Go Back'.
GoBack ==
  /\ alert = Null
  /\ Pop
  /\ UNCHANGED <<fixedAuth, accounts, serviceVars, alert>>

\* The button of an Alert dismisses it; the only button of the success
\* alert of RegisterScreen is 'Login Now'.
DismissAlert ==
  /\ alert # Null
  /\ autoLogin.email # 0 => autoLogin.pending
  /\ alert' = Null
  /\ UNCHANGED <<authVars, serviceVars, stack, postsVars, postVars, formVars,
                 profileVars, usersVars, registerVars>>

\* 'New Post' on PostsScreen and on UserProfileScreen.
OpenNewPost ==
  /\ PostsView \/ ProfileView
  /\ Push("NewPost")
  /\ params' = NoParams
  /\ isFetchingPost' = FALSE
  /\ UNCHANGED <<formLoading, formError, formFetch, formSubmit>>
  /\ UNCHANGED <<authVars, serviceVars, alert, postsVars, postVars, profileVars,
                 usersVars, registerVars>>

\* A post card is pressed: PostDetailScreen mounts and its effect fetches.
OpenPostDetail(p) ==
  /\ \/ PostsView /\ \E k \in 1 .. Len(posts) : posts[k] = p
     \/ ProfileView /\ \E k \in 1 .. Len(userPosts) : userPosts[k] = p
  /\ Push("PostDetail")
  /\ postId' = p.id
  /\ postLoading' = TRUE
  /\ postRuns' = 1
  /\ UNCHANGED <<post, postError, postDelete>>
  /\ UNCHANGED <<authVars, serviceVars, alert, postsVars, formVars, profileVars,
                 usersVars, registerVars>>

\* The edit button of a post card or of the detail view: the form mounts in
\* edit mode and its effect fetches the post.
OpenEditPost(p) ==
  /\ \/ PostsView /\ \E k \in 1 .. Len(posts) : posts[k] = p
     \/ PostView /\ post = p /\ p # NoPost
  /\ canEditPost(p)
  /\ Push("EditPost")
  /\ params' = [postId |-> p.id, isOwnPost |-> (p.userId = user.id)]
  /\ isFetchingPost' = TRUE
  /\ formFetch' = TRUE
  /\ UNCHANGED <<formLoading, formError, formSubmit>>
  /\ UNCHANGED <<authVars, serviceVars, alert, postsVars, postVars, profileVars,
                 usersVars, registerVars>>

\* The profile button of the header: UserProfileScreen mounts and fetches.
OpenUserProfile ==
  /\ Top = "Posts"
  /\ alert = Null
  /\ Push("UserProfile")
  /\ fetchUserData
  /\ UNCHANGED <<fixedAuth, accounts, serviceVars, alert, postsVars, postVars,
                 formVars, usersVars, registerVars>>

\* The users button of the header, shown to an admin: UsersListScreen
\* mounts and fetches.
OpenUsersList ==
  /\ Top = "Posts"
  /\ alert = Null
  /\ isAdmin
  /\ Push("UsersList")
  /\ fetchUsers
  /\ UNCHANGED <<fixedAuth, accounts, serviceVars, alert, postsVars, postVars,
                 formVars, profileVars, registerVars>>

\* The link of LoginScreen to RegisterScreen.
OpenRegister ==
  /\ Top = "Login"
  /\ alert = Null
  /\ Push("Register")
  /\ UNCHANGED <<authVars, serviceVars, alert, postsVars, postVars, formVars,
                 profileVars, usersVars, registerVars>>

(***************************************************************************)
(* PostsScreen                                                              *)
(***************************************************************************)
\* Mutant of FetchPostsOk: the listing is shown but the error is kept.
FetchPostsOk_KeepsError(body) ==
  /\ postsRuns > 0
  /\ posts' = Unwrap(body).items
  /\ postsLoading' = FALSE
  /\ postsRuns' = postsRuns - 1
  /\ UNCHANGED <<postsError, postsDelete>>
  /\ UNCHANGED <<authVars, serviceVars, stack, alert, postVars, formVars,
                 profileVars, usersVars, registerVars>>

\* getAllPosts resolved: setPosts(response); setError(null); finally
\* setIsLoading(false).
FetchPostsOk(body) ==
  /\ postsRuns > 0
  /\ posts' = Unwrap(body).items
  /\ postsError' = Null
  /\ postsLoading' = FALSE
  /\ postsRuns' = postsRuns - 1
  /\ UNCHANGED postsDelete
  /\ UNCHANGED <<authVars, serviceVars, stack, alert, postVars, formVars,
                 profileVars, usersVars, registerVars>>

\* Mutant of FetchPostsFail: the catch block without the finally block.
FetchPostsFail_NoFinally(m) ==
  /\ postsRuns > 0
  /\ postsError' = <<"Failed to load posts. Please try again.">>
  /\ postsRuns' = postsRuns - 1
  /\ UNCHANGED <<posts, postsLoading, postsDelete>>
  /\ UNCHANGED <<authVars, serviceVars, stack, alert, postVars, formVars,
                 profileVars, usersVars, registerVars>>

\* getAllPosts rejected with the backend's message m (or none).
FetchPostsFail(m) ==
  /\ postsRuns > 0
  /\ postsError' = <<"Failed to load posts. Please try again.">>
  /\ postsLoading' = FALSE
  /\ postsRuns' = postsRuns - 1
  /\ UNCHANGED <<posts, postsDelete>>
  /\ UNCHANGED <<authVars, serviceVars, stack, alert, postVars, formVars,
                 profileVars, usersVars, registerVars>>

\* The Retry button of the error view: onPress={fetchPosts}.
RetryPosts ==
  /\ PostsErrorView
  /\ fetchPosts
  /\ UNCHANGED postsDelete
  /\ UNCHANGED <<authVars, serviceVars, stack, alert, postVars, formVars,
                 profileVars, usersVars, registerVars>>

\* The trash button of a post card, confirmed: the handler picks the
\* endpoint and awaits the request.
DeletePost(p) ==
  /\ PostsView
  /\ \E k \in 1 .. Len(posts) : posts[k] = p
  /\ canDeletePost(p)
  /\ postsDelete = NoCall
  /\ LET op == DeleteEndpoint(isAdmin, p.userId = user.id)
     IN  IF op = "none"
           THEN /\ alert' = <<"You can only delete your own posts">>
                /\ UNCHANGED postsDelete
           ELSE /\ postsDelete' = [postId |-> p.id, op |-> op]
                /\ UNCHANGED alert
  /\ UNCHANGED <<posts, postsLoading, postsError, postsRuns>>
  /\ UNCHANGED <<authVars, serviceVars, stack, postVars, formVars, profileVars,
                 usersVars, registerVars>>

\* The delete resolved: fetchPosts() is started, not awaited, and the
\* success alert is shown.
DeletePostOk ==
  /\ postsDelete # NoCall
  /\ postsDelete' = NoCall
  /\ fetchPosts
  /\ alert' = <<"Post deleted successfully">>
  /\ UNCHANGED <<authVars, serviceVars, stack, postVars, formVars, profileVars,
                 usersVars, registerVars>>

DeletePostFail(m) ==
  /\ postsDelete # NoCall
  /\ postsDelete' = NoCall
  /\ alert' = DeleteFailed(m)
  /\ UNCHANGED <<posts, postsLoading, postsError, postsRuns>>
  /\ UNCHANGED <<authVars, serviceVars, stack, postVars, formVars, profileVars,
                 usersVars, registerVars>>

(***************************************************************************)
(* PostDetailScreen                                                         *)
(***************************************************************************)
\* getPostById resolved: setPost(response); setError(null); finally
\* setIsLoading(false).
FetchPostOk(body) ==
  /\ postRuns > 0
  /\ body \in Bodies(PostOf(postId))
  /\ post' = Unwrap(body)
  /\ postError' = Null
  /\ postLoading' = FALSE
  /\ postRuns' = postRuns - 1
  /\ UNCHANGED <<postId, postDelete>>
  /\ UNCHANGED <<authVars, serviceVars, stack, alert, postsVars, formVars,
                 profileVars, usersVars, registerVars>>

FetchPostFail(m) ==
  /\ postRuns > 0
  /\ postError' = <<"Failed to load post details. Please try again.">>
  /\ postLoading' = FALSE
  /\ postRuns' = postRuns - 1
  /\ UNCHANGED <<postId, post, postDelete>>
  /\ UNCHANGED <<authVars, serviceVars, stack, alert, postsVars, formVars,
                 profileVars, usersVars, registerVars>>

\* The Retry button of the error view: onPress={fetchPostDetails}.
RetryPost ==
  /\ PostErrorView
  /\ fetchPostDetails
  /\ UNCHANGED postDelete
  /\ UNCHANGED <<authVars, serviceVars, stack, alert, postsVars, formVars,
                 profileVars, usersVars, registerVars>>

\* The delete button of the detail view, confirmed.
DeleteShownPost ==
  /\ PostView
  /\ post # NoPost
  /\ canDeletePost(post)
  /\ postDelete = NoCall
  /\ LET op == DeleteEndpoint(isAdmin, post.userId = user.id)
     IN  IF op = "none"
           THEN /\ alert' = <<"You can only delete your own posts">>
                /\ UNCHANGED postDelete
           ELSE /\ postDelete' = [postId |-> postId, op |-> op]
                /\ UNCHANGED alert
  /\ UNCHANGED <<postId, post, postLoading, postError, postRuns>>
  /\ UNCHANGED <<authVars, serviceVars, stack, postsVars, formVars, profileVars,
                 usersVars, registerVars>>

\* The delete resolved: the success alert and navigation.goBack().  A
\* response that arrives while the edit form covers the screen is taken to
\* arrive after the return to it.
DeleteShownPostOk ==
  /\ postDelete # NoCall
  /\ Top = "PostDetail"
  /\ alert' = <<"Post deleted successfully">>
  /\ Pop
  /\ UNCHANGED <<fixedAuth, accounts, serviceVars>>

DeleteShownPostFail(m) ==
  /\ postDelete # NoCall
  /\ postDelete' = NoCall
  /\ alert' = DeleteFailed(m)
  /\ UNCHANGED <<postId, post, postLoading, postError, postRuns>>
  /\ UNCHANGED <<authVars, serviceVars, stack, postsVars, formVars, profileVars,
                 usersVars, registerVars>>

(***************************************************************************)
(* CreateEditPostScreen                                                     *)
(***************************************************************************)
isEditing == params.postId # 0

\* The prefetch of the edit mode resolved: setTitle, setContent; finally
\* setIsFetchingPost(false).
PrefetchOk ==
  /\ formFetch
  /\ formFetch' = FALSE
  /\ isFetchingPost' = FALSE
  /\ UNCHANGED <<params, formLoading, formError, formSubmit>>
  /\ UNCHANGED <<authVars, serviceVars, stack, alert, postsVars, postVars,
                 profileVars, usersVars, registerVars>>

PrefetchFail(m) ==
  /\ formFetch
  /\ formFetch' = FALSE
  /\ formError' = <<"Failed to load post details">>
  /\ alert' = <<"Could not load post data">>
  /\ isFetchingPost' = FALSE
  /\ UNCHANGED <<params, formLoading, formSubmit>>
  /\ UNCHANGED <<authVars, serviceVars, stack, postsVars, postVars, profileVars,
                 usersVars, registerVars>>

\* Mutant of HandleSubmit: the two fields are checked without trim().
HandleSubmit_NoTrim(title, content) ==
  /\ FormView
  /\ ~formLoading
  /\ IF title = <<>>
       THEN /\ alert' = <<"Please enter a title">>
            /\ UNCHANGED <<formLoading, formSubmit>>
       ELSE IF content = <<>>
              THEN /\ alert' = <<"Please enter some content">>
                   /\ UNCHANGED <<formLoading, formSubmit>>
              ELSE /\ formLoading' = TRUE
                   /\ formSubmit' =
                        [postId |-> params.postId,
                         op |-> IF isEditing
                                  THEN UpdateEndpoint(isAdmin, params.isOwnPost)
                                  ELSE "createPost"]
                   /\ UNCHANGED alert
  /\ UNCHANGED <<params, isFetchingPost, formError, formFetch>>
  /\ UNCHANGED <<authVars, serviceVars, stack, postsVars, postVars, profileVars,
                 usersVars, registerVars>>

\* handleSubmit up to its await, for the title and the content typed: the
\* validation, setIsLoading(true), the choice of the function.
HandleSubmit(title, content) ==
  /\ FormView
  /\ ~formLoading
  /\ IF Trim(title) = <<>>
       THEN /\ alert' = <<"Please enter a title">>
            /\ UNCHANGED <<formLoading, formSubmit>>
       ELSE IF Trim(content) = <<>>
              THEN /\ alert' = <<"Please enter some content">>
                   /\ UNCHANGED <<formLoading, formSubmit>>
              ELSE /\ formLoading' = TRUE
                   /\ formSubmit' =
                        [postId |-> params.postId,
                         op |-> IF isEditing
                                  THEN UpdateEndpoint(isAdmin, params.isOwnPost)
                                  ELSE "createPost"]
                   /\ UNCHANGED alert
  /\ UNCHANGED <<params, isFetchingPost, formError, formFetch>>
  /\ UNCHANGED <<authVars, serviceVars, stack, postsVars, postVars, profileVars,
                 usersVars, registerVars>>

\* The request resolved: the success alert and navigation.goBack().
SubmitOk ==
  /\ formSubmit # NoCall
  /\ alert' = IF isEditing THEN <<"Post updated successfully">>
                           ELSE <<"Post created successfully">>
  /\ Pop
  /\ UNCHANGED <<fixedAuth, accounts, serviceVars>>

\* The request rejected: a fixed alert; finally setIsLoading(false).
SubmitFail(m) ==
  /\ formSubmit # NoCall
  /\ formSubmit' = NoCall
  /\ alert' = IF isEditing THEN <<"Failed to update post">>
                           ELSE <<"Failed to create post">>
  /\ formLoading' = FALSE
  /\ UNCHANGED <<params, isFetchingPost, formError, formFetch>>
  /\ UNCHANGED <<authVars, serviceVars, stack, postsVars, postVars, profileVars,
                 usersVars, registerVars>>

(***************************************************************************)
(* UserProfileScreen                                                        *)
(***************************************************************************)
\* allPosts.filter(post => post.userId === user.id)
OwnPosts(list) == SelectSeq(list, LAMBDA p : p.userId = user.id)

\* getUserProfile resolved: setUserProfile(profileResponse), then
\* fetchUserPosts requests the listing.
ProfileOk ==
  /\ profileRuns > 0
  /\ userProfile' = ProfileOf(token)
  /\ profileRuns' = profileRuns - 1
  /\ userPostsRuns' = userPostsRuns + 1
  /\ UNCHANGED <<userPosts, profileLoading, profileError>>
  /\ UNCHANGED <<authVars, serviceVars, stack, alert, postsVars, postVars,
                 formVars, usersVars, registerVars>>

\* getUserProfile rejected: it sets the session's error field and rethrows;
\* the screen shows its own text; finally setIsLoading(false).
ProfileFail(m) ==
  /\ profileRuns > 0
  /\ error' = OrFallback(m, "Failed to get profile")
  /\ profileError' = <<"Failed to load profile data">>
  /\ profileLoading' = FALSE
  /\ profileRuns' = profileRuns - 1
  /\ UNCHANGED <<userProfile, userPosts, userPostsRuns>>
  /\ UNCHANGED <<fixedAuth, accounts, serviceVars, stack, alert, postsVars,
                 postVars, formVars, usersVars, registerVars>>

\* fetchUserPosts returned the user's posts of the listing, or [] when its
\* request failed: setUserPosts(posts); setError(null); finally
\* setIsLoading(false).
UserPostsDone(list) ==
  /\ userPostsRuns > 0
  /\ userPosts' = OwnPosts(list)
  /\ profileError' = Null
  /\ profileLoading' = FALSE
  /\ userPostsRuns' = userPostsRuns - 1
  /\ UNCHANGED <<userProfile, profileRuns>>
  /\ UNCHANGED <<authVars, serviceVars, stack, alert, postsVars, postVars,
                 formVars, usersVars, registerVars>>

\* The Retry button of the error view: onPress={fetchUserData}.
RetryProfile ==
  /\ ProfileErrorView
  /\ fetchUserData
  /\ UNCHANGED <<fixedAuth, accounts, serviceVars, stack, alert, postsVars,
                 postVars, formVars, usersVars, registerVars>>

(***************************************************************************)
(* UsersListScreen                                                          *)
(***************************************************************************)
AllUsers == [i \in 1 .. MaxUsers |-> UserOf(i)]

\* getAllUsers resolved: setUsers(response); setError(null); finally
\* setIsLoading(false).
\* The backend answers the list to an admin's bearer only.
FetchUsersOk ==
  /\ usersRuns > 0
  /\ ProfileOf(token).isAdmin
  /\ users' = AllUsers
  /\ usersError' = Null
  /\ usersLoading' = FALSE
  /\ usersRuns' = usersRuns - 1
  /\ UNCHANGED <<authVars, serviceVars, stack, alert, postsVars, postVars,
                 formVars, profileVars, registerVars>>

\* getAllUsers rejected: it sets the session's error field and rethrows.
FetchUsersFail(m) ==
  /\ usersRuns > 0
  /\ error' = OrFallback(m, "Failed to get users")
  /\ usersError' = <<"Failed to load users. Please try again.">>
  /\ usersLoading' = FALSE
  /\ usersRuns' = usersRuns - 1
  /\ UNCHANGED users
  /\ UNCHANGED <<fixedAuth, accounts, serviceVars, stack, alert, postsVars,
                 postVars, formVars, profileVars, registerVars>>

\* The Retry button, shown for every error but the missing permission.
RetryUsers ==
  /\ UsersErrorView
  /\ usersError # <<"You do not have permission to access this page">>
  /\ fetchUsers
  /\ UNCHANGED <<fixedAuth, accounts, serviceVars, stack, alert, postsVars,
                 postVars, formVars, profileVars, registerVars>>

(***************************************************************************)
(* RegisterScreen                                                           *)
(***************************************************************************)
\* handleRegister up to its await, for the four fields as typed (the e-mail
\* field holds an address, or 0 for none): the validation,
\* setIsLoading(true), and register clears the session's error field.
HandleRegister(username, e, password, confirmPassword) ==
  /\ Top = "Register"
  /\ alert = Null
  /\ ~registerLoading
  /\ IF username = <<>> \/ e = 0 \/ password = <<>> \/ confirmPassword = <<>>
       THEN /\ alert' = <<"Please fill in all fields">>
            /\ UNCHANGED <<registerVars, error>>
       ELSE IF password # confirmPassword
              THEN /\ alert' = <<"Passwords do not match">>
                   /\ UNCHANGED <<registerVars, error>>
              ELSE /\ registerLoading' = TRUE
                   /\ registerRun' = e
                   /\ error' = Null
                   /\ UNCHANGED <<alert, autoLogin>>
  /\ UNCHANGED <<fixedAuth, accounts, serviceVars, stack, postsVars, postVars,
                 formVars, profileVars, usersVars>>

\* register resolved: the alert with the 'Login Now' button; finally
\* setIsLoading(false).
HandleRegisterOk ==
  /\ registerRun # 0
  /\ registerRun \notin accounts
  /\ accounts' = accounts \cup {registerRun}
  /\ alert' = <<"Your account has been created successfully!">>
  /\ autoLogin' = [email |-> registerRun, pending |-> FALSE, nav |-> TRUE]
  /\ registerLoading' = FALSE
  /\ registerRun' = 0
  /\ UNCHANGED <<fixedAuth, error, serviceVars, stack, postsVars, postVars,
                 formVars, profileVars, usersVars>>

\* register rejected: it sets the session's error field and rethrows; the
\* alert shows the backend's message or a fallback.
HandleRegisterFail(m) ==
  /\ registerRun # 0
  /\ m # Null => registerRun \in accounts
  /\ error' = OrFallback(m, "Registration failed")
  /\ alert' = OrFallback(m, "Could not create account. Please try again.")
  /\ registerLoading' = FALSE
  /\ registerRun' = 0
  /\ UNCHANGED autoLogin
  /\ UNCHANGED <<fixedAuth, accounts, serviceVars, stack, postsVars, postVars,
                 formVars, profileVars, usersVars>>

NextScreens ==
  \/ GoBack
  \/ DismissAlert
  \/ OpenNewPost
  \/ \E i \in PostIds : OpenPostDetail(PostOf(i))
  \/ \E i \in PostIds : OpenEditPost(PostOf(i))
  \/ OpenUserProfile
  \/ OpenUsersList
  \/ OpenRegister
  \/ \E ids \in IdLists : \E body \in Bodies(Arr(PostsOf(ids))) : FetchPostsOk(body)
  \/ \E m \in Messages : FetchPostsFail(m)
  \/ RetryPosts
  \/ \E i \in PostIds : DeletePost(PostOf(i))
  \/ DeletePostOk
  \/ \E m \in Messages : DeletePostFail(m)
  \/ \E i \in PostIds : \E body \in Bodies(PostOf(i)) : FetchPostOk(body)
  \/ \E m \in Messages : FetchPostFail(m)
  \/ RetryPost
  \/ DeleteShownPost
  \/ DeleteShownPostOk
  \/ \E m \in Messages : DeleteShownPostFail(m)
  \/ PrefetchOk
  \/ \E m \in Messages : PrefetchFail(m)
  \/ \E title, content \in Texts : HandleSubmit(title, content)
  \/ SubmitOk
  \/ \E m \in Messages : SubmitFail(m)
  \/ ProfileOk
  \/ \E m \in Messages : ProfileFail(m)
  \/ \E ids \in IdLists : UserPostsDone(PostsOf(ids))
  \/ RetryProfile
  \/ FetchUsersOk
  \/ \E m \in Messages : FetchUsersFail(m)
  \/ RetryUsers
  \/ \E username, password, confirmPassword \in Texts : \E e \in 0 .. MaxUsers :
       HandleRegister(username, e, password, confirmPassword)
  \/ HandleRegisterOk
  \/ \E m \in Messages : HandleRegisterFail(m)

SpecScreens == InitScreens /\ [][NextScreens]_vars

TypeOKScreens ==
  /\ postsRuns \in 0 .. MaxInFlight
  /\ postRuns \in 0 .. MaxInFlight
  /\ profileRuns + userPostsRuns \in 0 .. MaxInFlight
  /\ usersRuns \in 0 .. MaxInFlight
  /\ Len(stack) >= 1
  /\ Mounted("PostDetail") <=> postId # 0
  /\ (Mounted("NewPost") \/ Mounted("EditPost")) => Top \in {"NewPost", "EditPost"}

\* C12: in edit mode every submit invokes exactly one of the two update
\* functions, for the post of the form: updatePost only when the current
\* user is an admin and the post is another user's, updateOwnPost only when
\* the post is the current user's.
C12_UpdateSplit ==
  [][(formSubmit = NoCall /\ formSubmit' # NoCall /\ isEditing) =>
       /\ formSubmit'.op \in {"updatePost", "updateOwnPost"}
       /\ formSubmit'.postId = params.postId
       /\ formSubmit'.op = "updatePost" =>
            isAdmin /\ PostOf(params.postId).userId # user.id
       /\ formSubmit'.op = "updateOwnPost" =>
            PostOf(params.postId).userId = user.id]_vars

C12_Witness ==
  /\ formSubmit.op = "updatePost"
  /\ isAdmin
  /\ PostOf(formSubmit.postId).userId # user.id

\* The delete function op is chosen for post p as the edit form would choose
\* the update function.
SameSplit(op, p) ==
  LET edit == UpdateEndpoint(isAdmin, p.userId = user.id)
  IN  /\ op = "deletePost" <=> edit = "updatePost"
      /\ op = "deleteOwnPost" <=> edit = "updateOwnPost"

\* C13: whenever a delete handler of PostsScreen or PostDetailScreen issues
\* its request, it has chosen deletePost exactly when the edit form would
\* choose updatePost for that user and post, and deleteOwnPost exactly when
\* the form would choose updateOwnPost.
C13_DeleteSplitAsUpdate ==
  [][/\ (postsDelete = NoCall /\ postsDelete' # NoCall) =>
          SameSplit(postsDelete'.op, PostOf(postsDelete'.postId))
     /\ (postDelete = NoCall /\ postDelete' # NoCall) =>
          SameSplit(postDelete'.op, PostOf(postDelete'.postId))]_vars

\* C15: a failed request is surfaced with the backend's message when the
\* response carries one and with a fallback otherwise: in the session's
\* error field and in what the screens show after a failed list, detail,
\* create, update or delete request.
C15_BackendMessageSurfaced ==
  [][\A m \in Messages :
       /\ HandleRegisterFail(m) => error' = OrFallback(m, "Registration failed")
       /\ ProfileFail(m) => error' = OrFallback(m, "Failed to get profile")
       /\ FetchUsersFail(m) => error' = OrFallback(m, "Failed to get users")
       /\ FetchPostsFail(m) =>
            postsError' = OrFallback(m, "Failed to load posts. Please try again.")
       /\ FetchPostFail(m) =>
            postError' = OrFallback(m, "Failed to load post details. Please try again.")
       /\ SubmitFail(m) =>
            alert' = OrFallback(m, IF isEditing THEN "Failed to update post"
                                                ELSE "Failed to create post")
       /\ DeletePostFail(m) => alert' = DeleteFailed(m)
       /\ DeleteShownPostFail(m) => alert' = DeleteFailed(m)]_vars

\* No request is awaited by a mounted screen whose loading flag is up.
Settled ==
  /\ Mounted("Posts") /\ postsRuns = 0 => ~postsLoading
  /\ Mounted("PostDetail") /\ postRuns = 0 => ~postLoading
  /\ Mounted("UserProfile") /\ profileRuns + userPostsRuns = 0 => ~profileLoading
  /\ Mounted("UsersList") /\ usersRuns = 0 => ~usersLoading
  /\ registerRun = 0 => ~registerLoading
  /\ formSubmit = NoCall => ~formLoading
  /\ ~formFetch => ~isFetchingPost

\* A request of a screen that stays mounted completes: its flag is lowered.
FlagLowered ==
  /\ postsRuns' < postsRuns => ~postsLoading'
  /\ postRuns' < postRuns /\ postId' # 0 => ~postLoading'
  /\ (profileRuns' + userPostsRuns' < profileRuns + userPostsRuns
      /\ Len(stack') >= Len(stack)) => ~profileLoading'
  /\ usersRuns' < usersRuns /\ Len(stack') >= Len(stack) => ~usersLoading'
  /\ registerRun # 0 /\ registerRun' = 0 => ~registerLoading'
  /\ formSubmit # NoCall /\ formSubmit' = NoCall => ~formLoading'
  /\ formFetch /\ ~formFetch' => ~isFetchingPost'

\* C16: when the request of fetchPosts, fetchPostDetails, fetchUserData,
\* fetchUsers, handleRegister, handleSubmit or the edit-mode prefetch
\* completes, by success or by failure, the loading flag of the operation
\* is false again; no flag stays up without a request being awaited, so the
\* controls that invoke the operation are offered again.
C16_LoadingFlagsReset == []Settled /\ [][FlagLowered]_vars

C16_Witness ==
  /\ Top = "Posts"
  /\ alert = Null
  /\ postsError # Null
  /\ ~postsLoading
  /\ postsRuns = 0

\* C17: PostsScreen never has two getAllPosts requests in flight and
\* UserProfileScreen never two runs of fetchUserData.
C17_OneOutstandingRequest ==
  /\ postsRuns <= 1
  /\ profileRuns + userPostsRuns <= 1

\* C18: whenever PostsScreen, PostDetailScreen, UserProfileScreen or
\* UsersListScreen becomes focused again, it issues a new request for its
\* primary data.
C18_RefetchOnFocus ==
  [][Len(stack') < Len(stack) =>
       LET to == stack'[Len(stack')]
       IN  /\ to = "Posts" => postsRuns' = postsRuns + 1
           /\ to = "PostDetail" => postRuns' = postRuns + 1
           /\ to = "UserProfile" => profileRuns' = profileRuns + 1
           /\ to = "UsersList" => usersRuns' = usersRuns + 1]_vars

C23_ValidationBlocksRequest ==
  [][/\ (Top = "Register" /\ alert = Null) =>
        \A username, password, confirmPassword \in Texts : \A e \in 0 .. MaxUsers :
          HandleRegister(username, e, password, confirmPassword) =>
            IF /\ username # <<>>
               /\ e # 0
               /\ password # <<>>
               /\ confirmPassword # <<>>
               /\ password = confirmPassword
              THEN registerRun' = e /\ registerLoading'
              ELSE registerRun' = 0 /\ ~registerLoading' /\ alert' # Null
     /\ FormView =>
        \A title, content \in Texts :
          HandleSubmit(title, content) =>
            IF Trim(title) # <<>> /\ Trim(content) # <<>>
              THEN formSubmit' # NoCall /\ formLoading'
              ELSE formSubmit' = NoCall /\ ~formLoading' /\ alert' # Null
     /\ registerRun' # registerRun /\ registerRun' # 0 => alert' = Null
     /\ formSubmit' # formSubmit /\ formSubmit' # NoCall => alert' = Null]_vars

C23_Witness ==
  /\ Top = "EditPost"
  /\ alert = <<"Please enter some content">>
  /\ formSubmit = NoCall
  /\ ~formLoading

(***************************************************************************)
(* Session and Navigation                                                   *)
(*                                                                          *)
(* AppNavigator mounts MainNavigator when a token is set and AuthNavigator  *)
(* otherwise.  This specification runs the registration flow, login,        *)
(* logout and the user list together: the session changes under the        *)
(* screens, and the navigator follows the token.  A re-render and the       *)
(* continuation of a settled login come before any response or press.  One *)
(* registration flow runs at a time; the listing of PostsScreen stays       *)
(* awaited.                                                                 *)
(***************************************************************************)
\* The mounted navigator is the one AppNavigator returns.
InSync == stack[1] = IF isAuthenticated THEN "Posts" ELSE "Login"

\* Nothing is left to run before the next response or press.
Quiet == InSync /\ ~(autoLogin.pending /\ loginPc \in {"resolved", "rejected"})

\* AppNavigator re-renders after the token changed: the navigator is
\* replaced, its screens unmount, and the root screen of the new one
\* mounts (PostsScreen fetches on mount).
Render ==
  /\ ~InSync
  /\ stack' = IF isAuthenticated THEN <<"Posts">> ELSE <<"Login">>
  /\ posts' = <<>>
  /\ postsLoading' = TRUE
  /\ postsError' = Null
  /\ postsRuns' = IF isAuthenticated THEN 1 ELSE 0
  /\ postsDelete' = NoCall
  /\ UnmountUsers
  /\ registerLoading' = FALSE
  /\ registerRun' = 0
  /\ autoLogin' = [autoLogin EXCEPT !.nav = FALSE]
  /\ UNCHANGED <<authVars, serviceVars, alert, postVars, formVars, profileVars>>

\* 'Login Now' of the success alert: the handler calls login with the
\* e-mail and the password of the registration and awaits it.
LoginNow ==
  /\ autoLogin.email # 0
  /\ ~autoLogin.pending
  /\ login(autoLogin.email, "registered")
  /\ alert' = Null
  /\ autoLogin' = [autoLogin EXCEPT !.pending = TRUE]
  /\ UNCHANGED <<serviceVars, stack, postsVars, postVars, formVars, profileVars,
                 usersVars, registerLoading, registerRun>>

\* login resolved: the handler returns.
AutoLoginDone ==
  /\ InSync
  /\ autoLogin.pending
  /\ loginPc = "resolved"
  /\ autoLogin' = NoAutoLogin
  /\ UNCHANGED <<authVars, serviceVars, stack, alert, postsVars, postVars,
                 formVars, profileVars, usersVars, registerLoading, registerRun>>

\* login rejected: the handler's catch raises the 'Login Failed' alert and
\* calls navigation.navigate('Login') on the navigator of its
\* RegisterScreen, which pops back to LoginScreen if it is still mounted.
AutoLoginFailed ==
  /\ InSync
  /\ autoLogin.pending
  /\ loginPc = "rejected"
  /\ alert' = <<"Registration was successful, but automatic login failed. Please try logging in manually.">>
  /\ autoLogin' = NoAutoLogin
  /\ IF autoLogin.nav
       THEN /\ stack' = <<"Login">>
            /\ registerLoading' = FALSE
            /\ registerRun' = 0
       ELSE UNCHANGED <<stack, registerLoading, registerRun>>
  /\ UNCHANGED <<authVars, serviceVars, postsVars, postVars, formVars, profileVars,
                 usersVars>>

InitFlows ==
  /\ SignedOut
  /\ accounts \in SUBSET Emails
  /\ db = <<>>
  /\ ServiceIdle
  /\ alert = Null
  /\ PostsUnmounted
  /\ PostUnmounted
  /\ FormUnmounted
  /\ ProfileUnmounted
  /\ UsersUnmounted
  /\ RegisterUnmounted
  /\ stack = <<"Login">>

NextFlows ==
  \/ Render
  \/ AutoLoginDone
  \/ AutoLoginFailed
  \/ Quiet /\ OpenRegister
  \/ Quiet /\ GoBack
  \/ Quiet /\ DismissAlert
  \/ Quiet /\ autoLogin = NoAutoLogin
       /\ \E username, password, confirmPassword \in Texts : \E e \in 0 .. MaxUsers :
            HandleRegister(username, e, password, confirmPassword)
  \/ Quiet /\ HandleRegisterOk
  \/ Quiet /\ \E m \in Messages : HandleRegisterFail(m)
  \/ Quiet /\ LoginNow
  \/ Quiet /\ LoginPostOk
  \/ Quiet /\ LoginPostNoToken
  \/ Quiet /\ \E m \in Messages : LoginPostFail(m)
  \/ Quiet /\ LoginProfileOk
  \/ Quiet /\ \E m \in Messages : LoginProfileFail(m)
  \/ Quiet /\ LoginSetTokenOk
  \/ Quiet /\ LoginSetUserOk
  \/ Quiet /\ LoginSetItemFail
  \/ Quiet /\ LogoutCall
  \/ Quiet /\ LogoutRmTokenOk
  \/ Quiet /\ LogoutRmUserOk
  \/ Quiet /\ LogoutCatch
  \/ Quiet /\ OpenUsersList
  \/ Quiet /\ FetchUsersOk
  \/ Quiet /\ \E m \in Messages : FetchUsersFail(m)
  \/ Quiet /\ RetryUsers

SpecFlows == InitFlows /\ [][NextFlows]_vars

\* C21 as stated: every load of the user list, on mount or by Retry, issues
\* the request GET /user/all, whatever the cached isAdmin flag.
C21_EveryLoadRequests ==
  [][(OpenUsersList \/ RetryUsers) => usersRuns' = usersRuns + 1]_vars

\* C21: a load of the user list checks the cached isAdmin flag first: when
\* it is false no request is issued and the permission error is shown;
\* when it is true the request is issued whatever the rights of the bearer,
\* and a request under a bearer without admin rights only ever fails, by
\* the backend's answer.
C21_LocalCheckInScreen ==
  [][/\ (OpenUsersList \/ RetryUsers) =>
          IF isAdmin
            THEN usersRuns' = usersRuns + 1 /\ usersLoading' /\ usersError' = usersError
            ELSE /\ usersRuns' = usersRuns
                 /\ ~usersLoading'
                 /\ usersError' = <<"You do not have permission to access this page">>
     /\ (/\ usersRuns' = usersRuns - 1
         /\ stack' = stack
         /\ token # Null
         /\ ~ProfileOf(token).isAdmin) =>
          /\ users' = users
          /\ usersError' = <<"Failed to load users. Please try again.">>]_vars

C21_Witness ==
  /\ Top = "UsersList"
  /\ token \in Tokens
  /\ ~isAdmin
  /\ usersRuns = 0
  /\ usersError = <<"You do not have permission to access this page">>

\* C30: in the registration flow login is called only by 'Login Now' of the
\* success alert, with the e-mail just registered; a failed register calls
\* no login; and when the automatic login fails the Login screen is shown.
C30_AutoLoginFlow ==
  [][/\ (loginPc' = "post" /\ loginPc # "post") =>
          /\ alert = <<"Your account has been created successfully!">>
          /\ autoLogin.email \in accounts
          /\ loginArgs' = <<autoLogin.email, "registered">>
     /\ (\E m \in Messages : HandleRegisterFail(m)) =>
          /\ autoLogin' = NoAutoLogin
          /\ loginPc' = loginPc
     /\ AutoLoginFailed => Top' = "Login"]_vars

\* The parts of C30 before the failure of the automatic login.
LoginOnlyAfterRegister ==
  [][/\ (loginPc' = "post" /\ loginPc # "post") =>
          /\ alert = <<"Your account has been created successfully!">>
          /\ autoLogin.email \in accounts
          /\ loginArgs' = <<autoLogin.email, "registered">>
     /\ (\E m \in Messages : HandleRegisterFail(m)) =>
          /\ autoLogin' = NoAutoLogin
          /\ loginPc' = loginPc]_vars

====
